---------------------------- MODULE Spec2Model ----------------------------
(***************************************************************************)
(* rsvg-convert: a caching front end that delegates SVG conversion to the  *)
(* external converter (inkscape).  The model follows src/src/main.rs:      *)
(* hash_input (the cache key) and main (the orchestration), one action per *)
(* step of main that touches the shared cache directory.                   *)
(*                                                                         *)
(* Numbers.  The f64 options (dpi, zoom) are modelled as exact fixed-point *)
(* numbers counted in units of 1/Unit (Unit = 10 * 1000), so that two      *)
(* values inside the same thousandth can be told apart.  Option<T> is a    *)
(* sequence of length 0 (None) or 1 (Some).                                *)
(***************************************************************************)
EXTENDS Integers, Sequences, FiniteSets, TLC

\* ------------------------------------------------------------------ bounds
\* Invocations started in one behaviour of Spec (one invocation at a time).
MaxRuns == 2
\* Invocations started in one behaviour of SpecConc (concurrent invocations).
MaxConcRuns == 2
\* Times the environment rewrites the input file.
MaxEdits == 1
\* Invocations started in one behaviour of SpecDpi.
MaxDpiRuns == 3

\* ------------------------------------------------------- program constants
\* (opt.dpi_x * 1000.0) as u64
Thousand == 1000
\* default_value = "90"
DefaultDpi == 90

\* Fixed-point resolution of the model: one unit is 1/10000.
Unit == 10 * Thousand

None == <<>>
Some(x) == <<x>>

Procs == {1, 2}

\* Args: the values the model draws for each option.
DpiA == DefaultDpi * Unit + 1
DpiB == DefaultDpi * Unit + 2
DpiC == DefaultDpi * Unit + 12
DefaultZoom == Unit
Formats == {"png", "pdf", "ps", "eps", "wmf", "emf"}
InputFile == "a.svg"
DestOk == "out"
DestBad == "nodir/out"

\* Requests of Spec: file or stdin input; a supported and an unsupported
\* format; two dpi values inside the same thousandth, on each axis; stdout,
\* a writable destination and a destination that cannot be written.
Requests ==
    [dpi_x : {DpiA, DpiB}, dpi_y : {DpiA, DpiB},
     x_zoom : {DefaultZoom}, y_zoom : {DefaultZoom},
     width : {None}, height : {None},
     format : {"png", "bmp"}, keep_aspect_ratio : {FALSE},
     input : {None, Some(InputFile)},
     output : {None, Some(DestOk), Some(DestBad)}]

\* Requests of SpecConc: valid requests only, file or stdin, stdout or file.
ConcRequests ==
    [dpi_x : {DpiA}, dpi_y : {DpiA},
     x_zoom : {DefaultZoom}, y_zoom : {DefaultZoom},
     width : {None}, height : {None},
     format : {"png"}, keep_aspect_ratio : {FALSE},
     input : {None, Some(InputFile)},
     output : {None, Some(DestOk)}]

\* Requests of SpecDpi: png from the input file to stdout, at three dpi values
\* of which two lie inside the same thousandth and at two negative ones, with
\* dpi_x = dpi_y, or not.
DpiRequests ==
    { r \in [dpi_x : {DpiA, DpiB, DpiC, -Unit, -2 * Unit},
             dpi_y : {DpiA, DpiB, DpiC, -Unit, -2 * Unit},
             x_zoom : {DefaultZoom}, y_zoom : {DefaultZoom},
             width : {None}, height : {None},
             format : {"png"}, keep_aspect_ratio : {FALSE},
             input : {Some(InputFile)},
             output : {None}] :
        r.dpi_x = r.dpi_y \/ {r.dpi_x, r.dpi_y} = {DpiA, DpiB} }

\* --------------------------------------------------------------- hash_input
\* `(v * 1000.0) as u64`: the product truncated toward zero; a negative
\* value saturates to 0.  The product is exact here: the rounding of the f64
\* product and the saturation at 2^64-1 are outside the model's values.
ToU64Coarse(v) == IF v <= 0 THEN 0 ELSE v \div Unit
ToU64(v) == IF v <= 0 THEN 0 ELSE (v * Thousand) \div Unit

\* The values fed to the hasher, in order.  DefaultHasher::new() has fixed
\* keys, so the digest is a function of this tuple; the model identifies the
\* digest (and its hex rendering) with the tuple (a collision-free hash).
FedNoYZoom(opt) ==
    << ToU64(opt.dpi_x), ToU64(opt.dpi_y), ToU64(opt.x_zoom), ToU64(opt.x_zoom),
       opt.width, opt.height, opt.format, opt.keep_aspect_ratio, opt.input[1] >>
Fed(opt) ==
    << ToU64(opt.dpi_x), ToU64(opt.dpi_y), ToU64(opt.x_zoom), ToU64(opt.y_zoom),
       opt.width, opt.height, opt.format, opt.keep_aspect_ratio, opt.input[1] >>

hash_input_with_output(opt) ==
    IF opt.input = None THEN None
    ELSE Some(Append(Fed(opt), opt.output))
hash_input(opt) == IF opt.input = None THEN None ELSE Some(Fed(opt))

\* ------------------------------------------------------------------- state
VARIABLES
    dirExists,    \* the cache directory <tmp>/rsvg-convert-cache exists
    cache,        \* the files of the cache directory: path -> contents
    svg,          \* version of the bytes of the input file
    runs,         \* invocations started so far
    pc,           \* where each invocation stands in main
    id,           \* the number of the invocation a process runs
    opt,          \* Args of the invocation
    output_path,  \* main's output_path
    exists,       \* main's exists
    cmd,          \* the command built for inkscape (None before it is built)
    child,        \* the converter subprocess: "none", "started", "writing",
                  \* and once it has exited "wrote" or "wrote_nothing"
    spawned,      \* converter subprocesses this invocation has spawned
    status,       \* captured Output of the child: None or Some([code, stderr, stdout])
    err,          \* the anyhow error (or panic message) main ended with
    stdout,       \* what the invocation wrote to its standard output
    dest,         \* what the invocation copied to the requested destination
    pred          \* history: how the invocation that ended immediately before
                  \* this one began ended (None if there is none)

vars == << dirExists, cache, svg, runs, pc, id, opt, output_path, exists, cmd,
           child, spawned, status, err, stdout, dest, pred >>

locals == << id, opt, output_path, exists, cmd, child, spawned, status, err,
             stdout, dest, pred >>

Terminal == {"Delivered", "Failed"}

NoOpt ==
    [dpi_x |-> DefaultDpi * Unit, dpi_y |-> DefaultDpi * Unit,
     x_zoom |-> DefaultZoom, y_zoom |-> DefaultZoom,
     width |-> None, height |-> None, format |-> "png",
     keep_aspect_ratio |-> FALSE, input |-> None, output |-> None]

\* A path of the cache directory: cache_dir.join(stem).with_extension(ext).
CachePath(stem, ext) == [stem |-> stem, ext |-> ext]
NoPath == CachePath(<<>>, "")

\* The process's standard output: the child's relayed stdout, then the bytes
\* of the cache file streamed by the delivery step.
NoStdout == [relay |-> << >>, file |-> << >>]

Init ==
    /\ dirExists = FALSE
    /\ cache = [q \in {} |-> 0]
    /\ svg = 0
    /\ runs = 0
    /\ pc = [p \in Procs |-> "idle"]
    /\ id = [p \in Procs |-> 0]
    /\ opt = [p \in Procs |-> NoOpt]
    /\ output_path = [p \in Procs |-> NoPath]
    /\ exists = [p \in Procs |-> FALSE]
    /\ cmd = [p \in Procs |-> None]
    /\ child = [p \in Procs |-> "none"]
    /\ spawned = [p \in Procs |-> 0]
    /\ status = [p \in Procs |-> None]
    /\ err = [p \in Procs |-> None]
    /\ stdout = [p \in Procs |-> NoStdout]
    /\ dest = [p \in Procs |-> None]
    /\ pred = [p \in Procs |-> None]

\* ----------------------------------------------------------------- helpers
\* path.exists()
PathExists(path) == path \in DOMAIN cache

\* What the converter leaves at its export filename: which command produced
\* it, in which invocation, from which version of the input, and how far the
\* converter got: "writing" (the child is still running), "complete" (the
\* child exited 0), "aborted" (the child exited non-zero and left it behind).
Content(c, run, src, state) == [cmd |-> c, run |-> run, src |-> src, state |-> state]

WriteFileReplace(path, bytes) ==
    [q \in {path} |-> bytes]
WriteFile(path, bytes) ==
    [q \in DOMAIN cache \cup {path} |-> IF q = path THEN bytes ELSE cache[q]]

\* match hash_input(&opt): the cache path and whether it is taken as present.
LookupStdinChecked(o) ==
    LET h == hash_input(o) IN
    IF h # None
    THEN [path |-> CachePath(h[1], o.format),
          exists |-> PathExists(CachePath(h[1], o.format))]
    ELSE [path |-> CachePath(<<"from_stdin">>, o.format),
          exists |-> PathExists(CachePath(<<"from_stdin">>, o.format))]
LookupNeverHit(o) ==
    LET h == hash_input(o) IN
    IF h # None
    THEN [path |-> CachePath(h[1], o.format), exists |-> FALSE]
    ELSE [path |-> CachePath(<<"from_stdin">>, o.format), exists |-> FALSE]
LookupFresh(o) ==
    LET h == hash_input(o) IN
    IF h # None
    THEN [path |-> CachePath(h[1], o.format),
          exists |-> /\ PathExists(CachePath(h[1], o.format))
                     /\ cache[CachePath(h[1], o.format)].src = svg]
    ELSE [path |-> CachePath(<<"from_stdin">>, o.format), exists |-> FALSE]
LookupResult(o) ==
    LET h == hash_input(o) IN
    IF h # None
    THEN [path |-> CachePath(h[1], o.format),
          exists |-> PathExists(CachePath(h[1], o.format))]
    ELSE [path |-> CachePath(<<"from_stdin">>, o.format), exists |-> FALSE]

\* match opt.format.as_str()
FormatSupported(f) == f \in Formats

\* The arguments given to inkscape.  input None is `--pipe` with the
\* invocation's own standard input inherited.  An absent export_width or
\* export_height is an argument that is not given.  to_string() of a number
\* is its decimal text, which is the fixed-point value itself here.
CommandSwapped(o, path) ==
    [program |-> "inkscape", input |-> o.input, export_type |-> o.format,
     export_filename |-> path, export_dpi |-> o.dpi_x,
     export_width |-> o.height, export_height |-> o.width]
Command(o, path) ==
    [program |-> "inkscape", input |-> o.input, export_type |-> o.format,
     export_filename |-> path, export_dpi |-> o.dpi_x,
     export_width |-> o.width, export_height |-> o.height]

\* output.status.success()
StatusSuccessAlways(out) == TRUE
StatusSuccess(out) == out.code = 0

\* What a converter run can end with: exit 0 quietly, exit 0 with text on its
\* standard output, exit 1 with "bad file" on its standard error.
ChildOutputs ==
    { [code |-> 0, stderr |-> "", stdout |-> << >>],
      [code |-> 0, stderr |-> "", stdout |-> << "inkscape: done" >>],
      [code |-> 1, stderr |-> "bad file", stdout |-> << >>] }

\* A destination fs::copy can write (its parent directory exists).
DestWritable(d) == d # DestBad

Error(msg, detail, path) == Some([msg |-> msg, detail |-> detail, path |-> path])

\* main returns Err (or panics): non-zero exit, the message on stderr.
FailRetry(p, e) ==
    /\ pc' = [pc EXCEPT ![p] = "lookup"]
    /\ err' = [err EXCEPT ![p] = e]
Fail(p, e) ==
    /\ pc' = [pc EXCEPT ![p] = "Failed"]
    /\ err' = [err EXCEPT ![p] = e]

\* ----------------------------------------------------------------- actions
\* A new invocation: Args::parse().
Begin(p, R, max) ==
    /\ pc[p] \in Terminal \cup {"idle"}
    /\ runs < max
    /\ runs' = runs + 1
    /\ \E r \in R : opt' = [opt EXCEPT ![p] = r]
    /\ pc' = [pc EXCEPT ![p] = "start"]
    /\ id' = [id EXCEPT ![p] = runs + 1]
    /\ output_path' = [output_path EXCEPT ![p] = NoPath]
    /\ exists' = [exists EXCEPT ![p] = FALSE]
    /\ cmd' = [cmd EXCEPT ![p] = None]
    /\ child' = [child EXCEPT ![p] = "none"]
    /\ spawned' = [spawned EXCEPT ![p] = 0]
    /\ status' = [status EXCEPT ![p] = None]
    /\ err' = [err EXCEPT ![p] = None]
    /\ stdout' = [stdout EXCEPT ![p] = NoStdout]
    /\ dest' = [dest EXCEPT ![p] = None]
    /\ pred' = [pred EXCEPT ![p] =
                  IF pc[p] \in Terminal /\ \A q \in Procs \ {p} : pc[q] = "idle"
                  THEN Some([opt |-> opt[p], ok |-> pc[p] = "Delivered",
                             spawned |-> spawned[p]])
                  ELSE None]
    /\ UNCHANGED << dirExists, cache, svg >>

\* if !cache_dir.exists()
CheckDir(p) ==
    /\ pc[p] = "start"
    /\ pc' = [pc EXCEPT ![p] = IF dirExists THEN "lookup" ELSE "mkdir"]
    /\ UNCHANGED << dirExists, cache, svg, runs, locals >>

\* fs::create_dir(&cache_dir).context(..)?  create_dir fails when the
\* directory already exists.
CreateDir(p) ==
    /\ pc[p] = "mkdir"
    /\ IF dirExists
       THEN /\ Fail(p, Error("failed to create temporary directory", "", NoPath))
            /\ UNCHANGED dirExists
       ELSE /\ dirExists' = TRUE
            /\ pc' = [pc EXCEPT ![p] = "lookup"]
            /\ UNCHANGED err
    /\ UNCHANGED << cache, svg, runs, id, opt, output_path, exists, cmd, child,
                    spawned, status, stdout, dest, pred >>

\* let (output_path, exists) = match hash_input(&opt) {..}; if !exists {..} else {..}
Lookup(p) ==
    /\ pc[p] = "lookup"
    /\ LET r == LookupResult(opt[p]) IN
         /\ output_path' = [output_path EXCEPT ![p] = r.path]
         /\ exists' = [exists EXCEPT ![p] = r.exists]
         /\ pc' = [pc EXCEPT ![p] = IF r.exists THEN "deliver" ELSE "build"]
    /\ UNCHANGED << dirExists, cache, svg, runs, id, opt, cmd, child, spawned,
                    status, err, stdout, dest, pred >>

\* The cache-miss branch up to the spawn: the format match, the dpi assert_eq!,
\* the argument list.
Build(p) ==
    /\ pc[p] = "build"
    /\ IF ~FormatSupported(opt[p].format)
       THEN /\ Fail(p, Error("Unsupported file format: ", opt[p].format, NoPath))
            /\ UNCHANGED cmd
       ELSE IF opt[p].dpi_x # opt[p].dpi_y
       THEN /\ Fail(p, Error("Different DPI values for x and y currently not supported",
                             "", NoPath))
            /\ UNCHANGED cmd
       ELSE /\ cmd' = [cmd EXCEPT ![p] = Some(Command(opt[p], output_path[p]))]
            /\ pc' = [pc EXCEPT ![p] = "spawn"]
            /\ UNCHANGED err
    /\ UNCHANGED << dirExists, cache, svg, runs, id, opt, output_path, exists,
                    child, spawned, status, stdout, dest, pred >>

\* cmd.output().context("Failed to execute inkscape")?: the child starts, or
\* cannot be started (no inkscape on the PATH).
Launch(p) ==
    /\ pc[p] = "spawn"
    /\ \/ /\ child' = [child EXCEPT ![p] = "started"]
          /\ spawned' = [spawned EXCEPT ![p] = @ + 1]
          /\ pc' = [pc EXCEPT ![p] = "wait"]
          /\ UNCHANGED err
       \/ /\ Fail(p, Error("Failed to execute inkscape", "", NoPath))
          /\ UNCHANGED << child, spawned >>
    /\ UNCHANGED << dirExists, cache, svg, runs, id, opt, output_path, exists,
                    cmd, status, stdout, dest, pred >>

\* The running converter creates (or truncates) its export file and starts
\* writing it: until it exits the file is there and incomplete.
ConvOpen(p) ==
    /\ pc[p] = "wait"
    /\ child[p] = "started"
    /\ child' = [child EXCEPT ![p] = "writing"]
    /\ cache' = WriteFile(cmd[p][1].export_filename,
                          Content(cmd[p][1], id[p],
                                  IF opt[p].input = None THEN 0 ELSE svg, "writing"))
    /\ UNCHANGED << dirExists, svg, runs, pc, id, opt, output_path, exists, cmd,
                    spawned, status, err, stdout, dest, pred >>

\* The export file when the child exits.  Exit 0 after opening the file: the
\* file is complete.  Non-zero exit: what the child had written stays (if no
\* other converter has replaced it meanwhile).  Exit before opening the file:
\* nothing is written.
ChildExitFileFirstWins(p, out) ==
    LET path == cmd[p][1].export_filename IN
    IF child[p] # "writing" THEN cache
    ELSE IF PathExists(path) /\ cache[path].run # id[p] THEN cache
    ELSE IF out.code = 0
    THEN WriteFile(path, Content(cmd[p][1], id[p],
                                 IF opt[p].input = None THEN 0 ELSE svg, "complete"))
    ELSE WriteFile(path, [cache[path] EXCEPT !.state = "aborted"])
ChildExitFile(p, out) ==
    LET path == cmd[p][1].export_filename IN
    IF child[p] # "writing" THEN cache
    ELSE IF out.code = 0
    THEN WriteFile(path, Content(cmd[p][1], id[p],
                                 IF opt[p].input = None THEN 0 ELSE svg, "complete"))
    ELSE IF PathExists(path) /\ cache[path].run = id[p]
    THEN WriteFile(path, [cache[path] EXCEPT !.state = "aborted"])
    ELSE cache

\* The child exits and cmd.output() returns its Output; then
\* if !output.status.success() { return Err(..stderr..) }, else the child's
\* stdout is relayed.  A child that exits 0 after opening its export file has
\* completed it; one that exits non-zero leaves what it had written; one that
\* exits before opening the file has written nothing.
ConvExit(p) ==
    /\ pc[p] = "wait"
    /\ \E out \in ChildOutputs :
         /\ status' = [status EXCEPT ![p] = Some(out)]
         /\ cache' = ChildExitFile(p, out)
         /\ IF ~StatusSuccess(out)
            THEN /\ Fail(p, Error("Inkscape error:", out.stderr, NoPath))
                 /\ UNCHANGED stdout
            ELSE /\ stdout' = [stdout EXCEPT ![p].relay = @ \o out.stdout]
                 /\ pc' = [pc EXCEPT ![p] = "deliver"]
                 /\ UNCHANGED err
    /\ child' = [child EXCEPT ![p] = IF @ = "writing" THEN "wrote" ELSE "wrote_nothing"]
    /\ UNCHANGED << dirExists, svg, runs, id, opt, output_path, exists, cmd,
                    spawned, dest, pred >>

\* if let Some(output) = opt.output { fs::copy(..)? } else { File::open(..)?;
\* io::copy(.., stdout)? }
Deliver(p) ==
    /\ pc[p] = "deliver"
    /\ IF opt[p].output # None
       THEN IF PathExists(output_path[p]) /\ DestWritable(opt[p].output[1])
            THEN /\ dest' = [dest EXCEPT ![p] = Some(cache[output_path[p]])]
                 /\ pc' = [pc EXCEPT ![p] = "Delivered"]
                 /\ UNCHANGED << err, stdout >>
            ELSE /\ Fail(p, Error("Failed to copy output to destination", "", NoPath))
                 /\ UNCHANGED << dest, stdout >>
       ELSE IF PathExists(output_path[p])
            THEN /\ stdout' = [stdout EXCEPT ![p].file = << cache[output_path[p]] >>]
                 /\ pc' = [pc EXCEPT ![p] = "Delivered"]
                 /\ UNCHANGED << err, dest >>
            ELSE /\ Fail(p, Error("No output was generated: ", "", output_path[p]))
                 /\ UNCHANGED << dest, stdout >>
    /\ UNCHANGED << dirExists, cache, svg, runs, id, opt, output_path, exists,
                    cmd, child, spawned, status, pred >>

\* The environment rewrites the input file between or during invocations.
EditInput ==
    /\ svg < MaxEdits
    /\ svg' = svg + 1
    /\ UNCHANGED << dirExists, cache, runs, pc, locals >>

Step(p) ==
    \/ CheckDir(p)
    \/ CreateDir(p)
    \/ Lookup(p)
    \/ Build(p)
    \/ Launch(p)
    \/ ConvOpen(p)
    \/ ConvExit(p)
    \/ Deliver(p)

\* One invocation at a time, any sequence of requests.
Next ==
    \/ Begin(1, Requests, MaxRuns)
    \/ Step(1)
    \/ EditInput

Spec == Init /\ [][Next]_vars

\* One invocation at a time, of requests that differ in the dpi only.
NextDpi ==
    \/ Begin(1, DpiRequests, MaxDpiRuns)
    \/ Step(1)

SpecDpi == Init /\ [][NextDpi]_vars

\* Invocations running concurrently on the shared cache directory.
NextConc ==
    \/ \E p \in Procs : Begin(p, ConcRequests, MaxConcRuns)
    \/ \E p \in Procs : Step(p)

SpecConc == Init /\ [][NextConc]_vars

\* The steps main itself takes (everything but the converter's own progress).
MainStep(p) ==
    \/ CheckDir(p)
    \/ CreateDir(p)
    \/ Lookup(p)
    \/ Build(p)
    \/ Launch(p)
    \/ Deliver(p)

\* Concurrent invocations with the scheduling the code has: main is straight
\* line code, so a started invocation keeps taking its next step; whether the
\* blocking cmd.output() ever returns is up to the converter (no timeout), so
\* no fairness is stated for ConvExit.
SpecLive == Init /\ [][NextConc]_vars /\ \A p \in Procs : WF_vars(MainStep(p))

\* ---------------------------------------------------- hash_input on its own
\* Two calls of hash_input (through the lookup of two invocations) on requests
\* that differ in at most one option, in a cache directory that is empty or
\* already holds the first request's file (if a converter can have been run
\* for it), with the input file rewritten at
\* any moment; on a miss the invocation goes on to build its command.
HashBase ==
    [dpi_x : {DpiA, -Unit}, dpi_y : {DpiA},
     x_zoom : {DefaultZoom}, y_zoom : {DefaultZoom, -Unit},
     width : {None, Some(100)}, height : {None},
     format : {"png"}, keep_aspect_ratio : {FALSE},
     input : {Some(InputFile)},
     output : {None, Some(DestOk)}]

Fields == {"dpi_x", "dpi_y", "x_zoom", "y_zoom", "width", "height", "format",
           "keep_aspect_ratio", "input", "output"}

NumericFields == {"dpi_x", "dpi_y", "x_zoom", "y_zoom"}

Dom(f) ==
    CASE f \in {"dpi_x", "dpi_y"} -> {DpiA, DpiB, DpiC, 0, -Unit, -2 * Unit}
      [] f \in {"x_zoom", "y_zoom"} -> {DefaultZoom, DefaultZoom + 1, 2 * Unit, -Unit, -2 * Unit}
      [] f \in {"width", "height"} -> {None, Some(0), Some(100), Some(200)}
      [] f = "format" -> {"png", "pdf", "bmp"}
      [] f = "keep_aspect_ratio" -> BOOLEAN
      [] f = "input" -> {None, Some(InputFile), Some("b.svg")}
      [] f = "output" -> {None, Some(DestOk), Some(DestBad)}

InitHash ==
    /\ dirExists = TRUE
    /\ svg = 0
    /\ runs = 2
    /\ pc = [p \in Procs |-> "lookup"]
    /\ id = [p \in Procs |-> p]
    /\ \E base \in HashBase : \E f \in Fields : \E v \in Dom(f) :
         /\ opt = [p \in Procs |-> IF p = 1 THEN base ELSE [base EXCEPT ![f] = v]]
         /\ cache \in { [q \in {} |-> 0] } \cup
                      IF FormatSupported(base.format) /\ base.dpi_x = base.dpi_y
                      THEN { [q \in {CachePath(Fed(base), base.format)} |->
                                Content(Command(base, q), 0, 0, "complete")] }
                      ELSE {}
    /\ output_path = [p \in Procs |-> NoPath]
    /\ exists = [p \in Procs |-> FALSE]
    /\ cmd = [p \in Procs |-> None]
    /\ child = [p \in Procs |-> "none"]
    /\ spawned = [p \in Procs |-> 0]
    /\ status = [p \in Procs |-> None]
    /\ err = [p \in Procs |-> None]
    /\ stdout = [p \in Procs |-> NoStdout]
    /\ dest = [p \in Procs |-> None]
    /\ pred = [p \in Procs |-> None]

NextHash ==
    \/ \E p \in Procs : Lookup(p)
    \/ \E p \in Procs : Build(p)
    \/ EditInput

SpecHash == InitHash /\ [][NextHash]_vars

\* ================================================================== claims
\* The artifact bytes an invocation delivered: to the requested destination,
\* or to its standard output.
DeliveredBytes(p) == IF opt[p].output # None THEN dest[p] ELSE stdout[p].file

Looked(p) == pc[p] \notin {"idle", "start", "mkdir", "lookup"}

\* ---- C1
\* C1: round trip.  An invocation on a real file that follows immediately an
\* invocation with the same Args which spawned the converter and ended
\* successfully takes the cache-hit branch (exists = true), never reaches the
\* cache-miss branch, spawns no converter, does not fail, and what it delivers
\* is the cache file's bytes.
C1_Repeats(p) ==
    /\ pc[p] # "idle"
    /\ pred[p] # None
    /\ pred[p][1].ok
    /\ pred[p][1].spawned = 1
    /\ pred[p][1].opt = opt[p]
    /\ opt[p].input # None

C1_RoundTrip ==
    \A p \in Procs :
      C1_Repeats(p) =>
        /\ pc[p] \in {"start", "lookup", "deliver", "Delivered"}
        /\ spawned[p] = 0
        /\ cmd[p] = None
        /\ Looked(p) => exists[p]
        /\ pc[p] = "Delivered" =>
             /\ PathExists(output_path[p])
             /\ DeliveredBytes(p) = << cache[output_path[p]] >>

C1_Witness ==
    \E p \in Procs : C1_Repeats(p) /\ pc[p] = "Delivered" /\ exists[p]

\* ---- C2
\* C2: for a request read from standard input hash_input is None, the lookup
\* yields exists = false and the fixed path from_stdin.<format> whatever the
\* cache directory holds, so the invocation is on the cache-miss branch: it
\* reaches the delivery step only after spawning the converter, and ends
\* without a spawn only by failing the format check, the dpi check or the launch.
C2_StdinNeverHit ==
    \A p \in Procs :
      (opt[p].input = None /\ pc[p] # "idle") =>
        /\ hash_input(opt[p]) = None
        /\ Looked(p) /\ ~(pc[p] = "Failed" /\ err[p][1].msg = "failed to create temporary directory") =>
             /\ ~exists[p]
             /\ output_path[p] = CachePath(<<"from_stdin">>, opt[p].format)
             /\ pc[p] \in {"deliver", "Delivered"} => spawned[p] = 1
             /\ (pc[p] = "Failed" /\ spawned[p] = 0) =>
                  err[p][1].msg \in {"Unsupported file format: ",
                                     "Different DPI values for x and y currently not supported",
                                     "Failed to execute inkscape"}

\* A stdin invocation whose converter is running while from_stdin.<format>,
\* left by an earlier invocation, is there.
C2_Witness ==
    \E p \in Procs :
      /\ opt[p].input = None
      /\ pc[p] = "wait"
      /\ child[p] = "started"
      /\ spawned[p] = 1
      /\ PathExists(output_path[p])
      /\ cache[output_path[p]].run # id[p]

\* ---- C3
\* C3: when the child exits non-zero the invocation is Failed, its error
\* embeds the child's captured stderr, nothing was copied to the destination
\* and nothing was written to standard output; when the child cannot be
\* launched (the command was built, nothing was spawned) the invocation is
\* Failed with the launch error and has delivered nothing either.
C3_ConverterFailureAborts ==
    \A p \in Procs :
      /\ (status[p] # None /\ status[p][1].code # 0) =>
           /\ pc[p] = "Failed"
           /\ err[p] # None
           /\ err[p][1].msg = "Inkscape error:"
           /\ err[p][1].detail = status[p][1].stderr
           /\ dest[p] = None
           /\ stdout[p] = NoStdout
      /\ (cmd[p] # None /\ spawned[p] = 0 /\ pc[p] # "spawn") =>
           /\ pc[p] = "Failed"
           /\ err[p] # None
           /\ err[p][1].msg = "Failed to execute inkscape"
           /\ dest[p] = None
           /\ stdout[p] = NoStdout

\* The child exited non-zero with "bad file" and left a partial file at the
\* cache path, a destination was requested, and the invocation is Failed.
C3_Witness ==
    \E p \in Procs :
      /\ status[p] # None
      /\ status[p][1].code # 0
      /\ status[p][1].stderr = "bad file"
      /\ opt[p].output = Some(DestOk)
      /\ PathExists(output_path[p])
      /\ pc[p] = "Failed"

\* ---- C4
\* C4: an invocation whose format is not one of the six supported ones, or
\* whose dpi_x differs from dpi_y, never spawns the converter and never ends
\* Delivered.
C4_Invalid(o) == o.format \notin {"png", "pdf", "ps", "eps", "wmf", "emf"} \/ o.dpi_x # o.dpi_y

C4_FailFast ==
    \A p \in Procs :
      (pc[p] # "idle" /\ C4_Invalid(opt[p])) =>
        /\ spawned[p] = 0
        /\ pc[p] # "Delivered"

\* ---- C5
\* C5: an invocation that exits zero has delivered exactly one artifact, and
\* that artifact is a complete file written by a converter run that exited 0
\* (never a file a failed run left behind).
C5_NoPartialSuccess ==
    \A p \in Procs :
      pc[p] = "Delivered" =>
        /\ Len(DeliveredBytes(p)) = 1
        /\ DeliveredBytes(p)[1].state = "complete"

\* ---- C6
\* C6: with invocations running concurrently on one cache key, an invocation
\* on a real file that ends Delivered has delivered exactly one artifact, the
\* one its own command would produce, and never a file that a converter which
\* is still running has only begun to write.  (A file left behind by a failed
\* converter run is the subject of C5 and is not counted here.)
C6_BenignRace ==
    \A p \in Procs :
      (pc[p] = "Delivered" /\ opt[p].input # None) =>
        /\ Len(DeliveredBytes(p)) = 1
        /\ DeliveredBytes(p)[1].cmd = Command(opt[p], output_path[p])
        /\ DeliveredBytes(p)[1].state # "writing"

\* ---- C7
\* C7: no invocation fails in creating the cache directory because the
\* directory is already there.
C7_CreateDirIdempotent ==
    \A p \in Procs :
      ~(/\ pc[p] = "Failed"
        /\ err[p][1].msg = "failed to create temporary directory"
        /\ dirExists)

\* ---- C8
\* C8: with no output destination, when the child has exited 0 without
\* writing its export file, the invocation does not end Delivered and writes
\* no artifact bytes to standard output: it ends Failed with "No output was
\* generated".  (Stated for cache directories in which no failed converter
\* run has left a file behind, so that it does not rest on C5.)
C8_NoOutputGenerated ==
    \A p \in Procs :
      (/\ opt[p].output = None
       /\ \A f \in DOMAIN cache : cache[f].state # "aborted"
       /\ child[p] = "wrote_nothing"
       /\ status[p] # None
       /\ status[p][1].code = 0) =>
        /\ pc[p] \in {"deliver", "Failed"}
        /\ stdout[p].file = << >>
        /\ pc[p] = "Failed" => err[p][1].msg = "No output was generated: "

\* ---- C9
\* The options hash_input may depend on.
KeyFields == Fields \ {"output"}

\* C9: two lookups of real-file requests that agree on dpi_x, dpi_y, x_zoom,
\* y_zoom, width, height, format, keep_aspect_ratio and the input path yield
\* the same key (the stem of the cache path), whatever their output
\* destination, the cache directory and the version of the input file at the
\* time of each lookup.
C9_SameKey ==
    \A p, q \in Procs :
      (/\ Looked(p) /\ Looked(q)
       /\ opt[p].input # None
       /\ \A f \in KeyFields : opt[p][f] = opt[q][f]) =>
        /\ output_path[p].stem = output_path[q].stem
        /\ output_path[p] = output_path[q]

\* Two lookups done, of requests that differ in the output destination only,
\* the input file rewritten in between or the cache already populated.
C9_Witness ==
    /\ Looked(1) /\ Looked(2)
    /\ opt[1].input # None
    /\ \A f \in KeyFields : opt[1][f] = opt[2][f]
    /\ opt[1].output # opt[2].output
    /\ svg > 0
    /\ exists[1] /\ exists[2]

\* ---- C10
\* The two requests of the lookups differ in option f and in nothing else.
C10_OnlyDiffers(f) ==
    /\ Looked(1) /\ Looked(2)
    /\ opt[1].input # None /\ opt[2].input # None
    /\ opt[1][f] # opt[2][f]
    /\ \A g \in Fields \ {f} : opt[1][g] = opt[2][g]

\* The value of a dpi or zoom option in whole thousandths, negative values
\* taken as 0.
C10_Thousandths(v) == IF v < 0 THEN 0 ELSE (v * 1000) \div Unit

\* C10 as stated: two real-file requests that differ in exactly one of dpi_x,
\* dpi_y, x_zoom, y_zoom, width, height, format, keep_aspect_ratio get
\* different keys, for every pair of distinct values.
C10_AnyChangeChangesKey ==
    \A f \in KeyFields \ {"input"} :
      C10_OnlyDiffers(f) => output_path[1].stem # output_path[2].stem

\* C10 amended: a change of width, height, format or keep_aspect_ratio always
\* changes the key; a change of dpi_x, dpi_y, x_zoom or y_zoom changes the key
\* exactly when the two values differ in whole thousandths (negative values
\* counting as 0).
C10_ChangeChangesKey ==
    /\ \A f \in {"width", "height", "format", "keep_aspect_ratio"} :
         C10_OnlyDiffers(f) => output_path[1].stem # output_path[2].stem
    /\ \A f \in NumericFields :
         C10_OnlyDiffers(f) =>
           ( output_path[1].stem # output_path[2].stem
             <=> C10_Thousandths(opt[1][f]) # C10_Thousandths(opt[2][f]) )

\* Two lookups done for requests whose y_zoom differ by a whole unit, with
\* different keys.
C10_Witness ==
    /\ C10_OnlyDiffers("y_zoom")
    /\ opt[1].y_zoom > 0 /\ opt[2].y_zoom > 0
    /\ output_path[1].stem # output_path[2].stem

\* ---- C11
\* C11: when no output destination is requested and the invocation ends
\* Delivered, what it wrote to its standard output is the cache file's bytes
\* and nothing else: nothing was relayed before them.
C11_StdoutVerbatim ==
    \A p \in Procs :
      (pc[p] = "Delivered" /\ opt[p].output = None) =>
        /\ Len(stdout[p].file) = 1
        /\ stdout[p].relay = << >>

\* ---- C12
\* The moves of one invocation through main: Start (start, mkdir, lookup),
\* KeyDerived -> CacheHit (deliver, exists) or CacheMiss (build, spawn, wait),
\* then Delivered or Failed.  A terminal process slot is left only by a new
\* invocation.
C12_Moves ==
    { <<"idle", "start">>, <<"start", "mkdir">>, <<"start", "lookup">>,
      <<"mkdir", "lookup">>, <<"mkdir", "Failed">>,
      <<"lookup", "deliver">>, <<"lookup", "build">>,
      <<"build", "spawn">>, <<"build", "Failed">>,
      <<"spawn", "wait">>, <<"spawn", "Failed">>,
      <<"wait", "deliver">>, <<"wait", "Failed">>,
      <<"deliver", "Delivered">>, <<"deliver", "Failed">>,
      <<"Delivered", "start">>, <<"Failed", "start">> }

C12_Inv ==
    \A p \in Procs :
      /\ spawned[p] <= 1
      /\ (Looked(p) /\ exists[p]) =>
           (spawned[p] = 0 /\ cmd[p] = None /\ child[p] = "none" /\ status[p] = None)
      /\ pc[p] = "Delivered" =>
           \/ exists[p]
           \/ spawned[p] = 1 /\ status[p] # None /\ status[p][1].code = 0

C12_Step ==
    \A p \in Procs :
      /\ pc'[p] # pc[p] => << pc[p], pc'[p] >> \in C12_Moves
      /\ id'[p] = id[p] =>
           /\ spawned'[p] >= spawned[p]
           /\ spawned'[p] # spawned[p] => (pc[p] = "spawn" /\ pc'[p] = "wait")
           /\ pc[p] \in Terminal =>
                /\ pc'[p] = pc[p]
                /\ << opt'[p], output_path'[p], exists'[p], cmd'[p], child'[p], status'[p],
                      err'[p], stdout'[p], dest'[p] >>
                   = << opt[p], output_path[p], exists[p], cmd[p], child[p], status[p],
                        err[p], stdout[p], dest[p] >>
      /\ id'[p] # id[p] => (pc[p] \in Terminal \cup {"idle"} /\ pc'[p] = "start")

\* C12: per invocation the converter is spawned at most once and never on a
\* cache hit; Delivered is reached only on a cache hit or after a converter
\* run that exited 0; every move follows the state machine; nothing follows
\* Failed (or Delivered) but a new invocation: no retry.
C12_StateMachine == []C12_Inv /\ [][C12_Step]_vars

\* An invocation that spawned the converter once and ended Failed.
C12_Witness ==
    \E p \in Procs : pc[p] = "Failed" /\ spawned[p] = 1 /\ ~exists[p]

\* ---- C13
\* C13: if no converter run lasts forever (no invocation stays in
\* cmd.output() from some moment on), every started invocation ends Delivered
\* or Failed; and in any case a started invocation ends or comes to wait for
\* its converter: cmd.output() is the only place where it can stay forever.
C13_Terminates ==
    /\ (\A q \in Procs : []<>(pc[q] # "wait")) =>
         (\A p \in Procs : (pc[p] = "start") ~> (pc[p] \in Terminal))
    /\ \A p \in Procs : (pc[p] = "start") ~> (pc[p] \in Terminal \cup {"wait"})

\* An invocation that waited for its converter and ended Delivered.
C13_Witness ==
    \E p \in Procs : pc[p] = "Delivered" /\ spawned[p] = 1 /\ child[p] = "wrote"

\* ---- C14
\* The step is one of invocation p's own (each step moves one invocation's pc
\* or its converter's progress).
C14_StepOf(p) == pc'[p] # pc[p] \/ child'[p] # child[p]

\* C14: the tool never deletes cache entries.  In every step the set of file
\* names in the cache directory only grows and the directory itself stays; a
\* step of an invocation that took the cache-hit branch leaves names and
\* contents as they are; the only steps that change the directory's files are
\* those of a converter spawned by an invocation that missed.
C14_NeverDeletes ==
    [][ /\ DOMAIN cache \subseteq DOMAIN cache'
        /\ dirExists => dirExists'
        /\ \A p \in Procs :
             (Looked(p) /\ exists[p] /\ C14_StepOf(p)) => cache' = cache
        /\ cache' # cache =>
             \E p \in Procs : /\ pc[p] = "wait"
                              /\ ~exists[p]
                              /\ spawned[p] = 1
                              /\ child'[p] # child[p] ]_vars

\* A cache-hit invocation has ended Delivered and the file it read is still in
\* the directory, as the other invocation's converter left it.
C14_Witness ==
    \E p \in Procs :
      /\ pc[p] = "Delivered" /\ exists[p] /\ spawned[p] = 0
      /\ PathExists(output_path[p])
      /\ cache[output_path[p]].run # id[p]
      /\ cache[output_path[p]].state = "complete"

\* ---- C15
\* C15: the reuse decision looks at the input file's path, not its contents.
\* An invocation that repeats the Args of the successful conversion just before
\* it and ends Delivered took the cache-hit branch without a spawn, and what it
\* delivers is the artifact that conversion wrote (its run, its version of the
\* input), whatever version the input file has by now.
C15_PathNotContents ==
    \A p \in Procs :
      (C1_Repeats(p) /\ pc[p] = "Delivered") =>
        /\ exists[p]
        /\ spawned[p] = 0
        /\ Len(DeliveredBytes(p)) = 1
        /\ DeliveredBytes(p)[1].run = id[p] - 1
        /\ DeliveredBytes(p)[1].state = "complete"
        /\ DeliveredBytes(p)[1].src <= svg

\* The repeat was delivered from the cache although the input file has been
\* rewritten since the cached artifact was made.
C15_Witness ==
    \E p \in Procs :
      /\ C1_Repeats(p) /\ pc[p] = "Delivered" /\ exists[p]
      /\ DeliveredBytes(p)[1].src < svg

\* ---- C16
\* Two invocations with the same key, both past the lookup with a miss.
C16_BothMiss(p, q) ==
    /\ p # q
    /\ opt[p].input # None
    /\ Looked(p) /\ Looked(q)
    /\ output_path[p] = output_path[q]
    /\ ~exists[p] /\ ~exists[q]

\* C16: no lock surrounds the existence check and the converter's write.  When
\* two invocations with the same key both missed, each one spawns its own
\* converter on the same cache path (nothing makes either wait for the other),
\* and whenever one of the converters finishes its write with exit 0 the cache
\* file holds that converter's bytes, whatever the other had put there: the
\* last writer wins.
C16_LastWriterWins ==
    [][ \A p \in Procs : \A q \in Procs :
          C16_BothMiss(p, q) =>
            /\ (cmd[p] # None /\ cmd[q] # None) =>
                 cmd[p][1].export_filename = cmd[q][1].export_filename
            /\ (pc[p] = "spawn" /\ pc'[p] = "wait") => spawned'[p] = 1
            /\ (child[p] = "writing" /\ child'[p] = "wrote" /\ pc'[p] = "deliver") =>
                 /\ PathExists(output_path[q])'
                 /\ cache'[output_path[q]].run = id[p]
                 /\ cache'[output_path[q]].state = "complete" ]_vars

\* Both invocations missed on the same key, both spawned a converter, both
\* converters wrote the same cache path and exited 0; the file holds the bytes
\* of the one that finished last, the other's bytes are gone.
C16_Witness ==
    \E p \in Procs : \E q \in Procs :
      /\ C16_BothMiss(p, q)
      /\ spawned[p] = 1 /\ spawned[q] = 1
      /\ child[p] = "wrote" /\ child[q] = "wrote"
      /\ status[p] # None /\ status[p][1].code = 0
      /\ status[q] # None /\ status[q][1].code = 0
      /\ PathExists(output_path[p])
      /\ cache[output_path[p]].run = id[q]

\* ---- C17
C17_Args == {"program", "input", "export_type", "export_filename", "export_dpi",
             "export_width", "export_height"}

\* C17: on a cache miss that passes the format and dpi checks the command is
\* built, and it is exactly: inkscape, the input (the file path, or --pipe for
\* standard input), the export type equal to the requested supported format,
\* the export filename equal to the cache path (<key>.<format>, or
\* from_stdin.<format> for standard input), the one DPI that dpi_x and dpi_y
\* share, an export width exactly when width is present, an export height
\* exactly when height is present, and nothing else: two requests that differ
\* only in zoom factors, keep_aspect_ratio or destination build commands that
\* differ in the export filename at most.
C17_ExactCommand ==
    /\ \A p \in Procs :
         /\ pc[p] = "spawn" => (cmd[p] # None /\ ~exists[p])
         /\ cmd[p] # None =>
              LET c == cmd[p][1]
                  o == opt[p] IN
              /\ DOMAIN c = C17_Args
              /\ c.program = "inkscape"
              /\ c.input = o.input
              /\ c.export_type = o.format /\ o.format \in Formats
              /\ c.export_filename = output_path[p]
              /\ c.export_filename =
                   CachePath(IF o.input = None THEN << "from_stdin" >> ELSE Fed(o),
                             o.format)
              /\ c.export_dpi = o.dpi_x /\ c.export_dpi = o.dpi_y
              /\ c.export_width = o.width
              /\ c.export_height = o.height
    /\ \A p \in Procs : \A q \in Procs :
         (/\ cmd[p] # None /\ cmd[q] # None
          /\ \A f \in Fields \ {"x_zoom", "y_zoom", "keep_aspect_ratio", "output"} :
               opt[p][f] = opt[q][f]) =>
           \A g \in C17_Args \ {"export_filename"} : cmd[p][1][g] = cmd[q][1][g]

\* Two commands built, one with an export width and one without.
C17_Witness ==
    /\ cmd[1] # None /\ cmd[2] # None
    /\ cmd[1][1].export_width # None
    /\ cmd[2][1].export_width = None
    /\ cmd[1][1].export_height = None

\* ---- C18
\* C18: after any sequence of invocations in which only this tool's converter
\* runs write the cache directory, an invocation whose format is unsupported or
\* whose dpi_x differs from dpi_y finds no cache entry under its key (its
\* lookup does not take the cache-hit branch) and does not end Delivered.
\* (Directories holding a file left behind by a failed converter run are the
\* subject of C5 and are not counted here.)
C18_InvalidNeverHits ==
    \A p \in Procs :
      (/\ Looked(p)
       /\ C4_Invalid(opt[p])
       /\ \A f \in DOMAIN cache : cache[f].state = "complete") =>
        /\ ~exists[p]
        /\ pc[p] # "Delivered"

\* ---- C19
\* The command whose converter run wrote the file that invocation p found.
C19_Hit(p) == Looked(p) /\ exists[p] /\ PathExists(output_path[p])

\* C19 as stated: a valid request that takes the cache-hit branch on a
\* complete file finds a file written by a converter run that got the very
\* command the request would build (same input, type, filename, DPI, width,
\* height).
C19_SameCommand ==
    \A p \in Procs :
      (/\ C19_Hit(p)
       /\ ~C4_Invalid(opt[p])
       /\ cache[output_path[p]].state = "complete") =>
        cache[output_path[p]].cmd = Command(opt[p], output_path[p])

\* C19, amended: whenever an invocation takes the cache-hit branch, the file
\* was written by a converter run that got the same input, export type,
\* export filename, width and height as the request names, and a DPI that
\* agrees with the request's dpi_x and dpi_y in whole thousandths, a negative
\* value counting as 0 (not necessarily the same DPI).
C19_Coherent ==
    \A p \in Procs :
      C19_Hit(p) =>
        LET c == cache[output_path[p]].cmd
            o == opt[p] IN
        /\ c.input = o.input
        /\ c.export_type = o.format
        /\ c.export_filename = output_path[p]
        /\ c.export_width = o.width
        /\ c.export_height = o.height
        /\ C10_Thousandths(c.export_dpi) = C10_Thousandths(o.dpi_x)
        /\ C10_Thousandths(c.export_dpi) = C10_Thousandths(o.dpi_y)

\* A valid request was delivered from the cache a complete file rendered at a
\* DPI other than its own, inside the same thousandth.
C19_Witness ==
    \E p \in Procs :
      /\ C19_Hit(p) /\ ~C4_Invalid(opt[p]) /\ pc[p] = "Delivered"
      /\ cache[output_path[p]].cmd.export_dpi # opt[p].dpi_x
      /\ cache[output_path[p]].state = "complete"

\* ---- C20
\* C20: an invocation that reads standard input, whose converter wrote its
\* export file and exited 0, and that ends Delivered has delivered the artifact
\* its own converter run produced, never bytes that another stdin-sourced
\* invocation put into the shared file from_stdin.<format>.  (The invocation
\* whose converter wrote nothing and which delivers an earlier invocation's
\* file is the subject of C8 and is not counted here.)
C20_StdinIsolation ==
    \A p \in Procs :
      (opt[p].input = None /\ pc[p] = "Delivered" /\ child[p] = "wrote") =>
        /\ Len(DeliveredBytes(p)) = 1
        /\ DeliveredBytes(p)[1].run = id[p]

=============================================================================
